---- MODULE Spec2Model ----
(***************************************************************************)
(* Grammar-correction pipeline of notebook 214-grammar-correction:         *)
(* split_text (regex sentence split + batching) and correct_text           *)
(* (classifier call, conditional corrector call, join).                    *)
(*                                                                         *)
(* Strings are sequences of one-character strings.  Scores are scaled by   *)
(* 10000 (0.9 is 9000).                                                    *)
(***************************************************************************)
EXTENDS Integers, Sequences, FiniteSets, TLC

VARIABLES fn, text, separator, pc, sentences, sentence_batches, temp_batch,
          si, bi, raw_text, results, corrected_text, calls, result,
          det, memo, history

vars == <<fn, text, separator, pc, sentences, sentence_batches, temp_batch,
          si, bi, raw_text, results, corrected_text, calls, result,
          det, memo, history>>

----------------------------------------------------------------------------
(* Bounds of the input space *)

\* longest text drawn from all strings over Alphabet
MaxLen == 5
\* most words in a text composed of Words, for a call of split_text
MaxSent == 5
\* most words in a text composed of Words, for a call of correct_text
MaxCorrSent == 3
\* most words in a text of a call that is followed to its end
MaxLiveSent == 2
\* most calls of correct_text in a row
MaxCalls == 3

Upper == {"A"}
Alphabet == {"a", "A", ".", "?", " "}

\* words a composed text is made of; "AA." ends no sentence (uppercase
\* three characters before the spaces), the others do
Words == { <<"A","a","a",".">>, <<"A","a","a","?">>, <<"A","A",".">> }

\* the words of the texts given to correct_text
CorrWords == { <<"A","a","a",".">>, <<"A","a","a","?">> }

\* separator: str = " "
DefaultSeparator == <<" ">>

Separators == { DefaultSeparator, <<"|">> }

Labels == {"LABEL_0", "LABEL_1", "LABEL_2"}
Scores == {8999, 9000, 10000}
\* what the corrector may generate
Generated == { <<"Z">>, <<"Z","z">> }

\* 0.9 of the comparison results[0]["score"] < 0.9
Threshold == 9000

----------------------------------------------------------------------------
(* String helpers *)

RECURSIVE Join(_, _)
\* sep.join(parts)
Join(parts, sep) ==
  IF Len(parts) = 0 THEN <<>>
  ELSE IF Len(parts) = 1 THEN parts[1]
  ELSE parts[1] \o sep \o Join(Tail(parts), sep)

RECURSIVE Flatten(_)
\* the sentences of a list of batches, in order
Flatten(batches) ==
  IF Len(batches) = 0 THEN <<>> ELSE Head(batches) \o Flatten(Tail(batches))

Sizes(batches) == [k \in 1..Len(batches) |-> Len(batches[k])]

Strings(n) == UNION { [1..k -> Alphabet] : k \in 0..n }

WordSeqs(W, n) == UNION { [1..k -> W] : k \in 0..n }

\* all strings up to MaxLen, and words joined by one space
SplitTexts == Strings(MaxLen) \cup { Join(ws, <<" ">>) : ws \in WordSeqs(Words, MaxSent) }
CorrTexts == { Join(ws, <<" ">>) : ws \in WordSeqs(CorrWords, MaxCorrSent) }
LiveTexts == { Join(ws, <<" ">>) : ws \in WordSeqs(CorrWords, MaxLiveSent) }
\* the texts of several calls in a row: one batch, and two batches of which
\* the second is the text of the first
CallTexts == { <<"A","a","a",".">>,
               <<"A","a","a","?"," ","A","a","a",".">> }

----------------------------------------------------------------------------
(* re.split(r"(?<=[^A-Z].[.?]) +(?=[A-Z])", text) *)

RECURSIVE RunEnd(_, _)
\* index of the last space of the run of spaces that starts at i
RunEnd(t, i) ==
  IF i + 1 <= Len(t) /\ t[i + 1] = " " THEN RunEnd(t, i + 1) ELSE i

\* the lookbehind read as two characters, [^A-Z][.?]
MatchAt_TwoBack(t, i) ==
  /\ i >= 3
  /\ i <= Len(t)
  /\ t[i] = " "
  /\ t[i - 2] \notin Upper
  /\ t[i - 1] \in {".", "?"}
  /\ RunEnd(t, i) + 1 <= Len(t)
  /\ t[RunEnd(t, i) + 1] \in Upper

\* the pattern matches with its first space at index i: three characters
\* before it are [^A-Z], any character but newline, [.?]; the greedy run of
\* spaces is followed by [A-Z]
MatchAt(t, i) ==
  /\ i >= 4
  /\ i <= Len(t)
  /\ t[i] = " "
  /\ t[i - 3] \notin Upper
  /\ t[i - 2] # "\n"
  /\ t[i - 1] \in {".", "?"}
  /\ RunEnd(t, i) + 1 <= Len(t)
  /\ t[RunEnd(t, i) + 1] \in Upper

RECURSIVE SplitFrom(_, _, _)
\* left-to-right scan for non-overlapping matches; start is where the
\* current piece begins, i the scan position
SplitFrom(t, start, i) ==
  IF i > Len(t) THEN << SubSeq(t, start, Len(t)) >>
  ELSE IF MatchAt(t, i)
       THEN << SubSeq(t, start, i - 1) >>
            \o SplitFrom(t, RunEnd(t, i) + 1, RunEnd(t, i) + 1)
       ELSE SplitFrom(t, start, i + 1)

\* a split that drops empty pieces, as str.split() does
re_split_DropEmpty(t) == SelectSeq(SplitFrom(t, 1, 1), LAMBDA s : s # <<>>)

re_split(t) == SplitFrom(t, 1, 1)

----------------------------------------------------------------------------
(* split_text *)

\* closes only on the size condition
CloseCondition_SizeOnly(tb, sentence, sents) ==
  Len(tb) >= 2 /\ Len(tb) <= 3

\* closes at size 3 instead of 2
CloseCondition_AtThree(tb, sentence, sents) ==
  Len(tb) >= 3 \/ sentence = sents[Len(sents)]

\* len(temp_batch) >= 2 and len(temp_batch) <= 3 or sentence == sentences[-1]
CloseCondition(tb, sentence, sents) ==
  (Len(tb) >= 2 /\ Len(tb) <= 3) \/ sentence = sents[Len(sents)]

NoResults == [label |-> "", score |-> 0]

Init ==
  /\ fn \in {"split_text", "correct_text"}
  /\ text \in (IF fn = "split_text" THEN SplitTexts ELSE CorrTexts)
  /\ separator \in (IF fn = "split_text" THEN { <<" ">> } ELSE Separators)
  /\ pc = "start"
  /\ sentences = <<>>
  /\ sentence_batches = <<>>
  /\ temp_batch = <<>>
  /\ si = 1
  /\ bi = 1
  /\ raw_text = <<>>
  /\ results = NoResults
  /\ corrected_text = <<>>
  /\ calls = <<>>
  /\ result = <<>>
  /\ det = FALSE
  /\ memo = {}
  /\ history = <<>>

\* lines 431-437: the regex split and the two empty lists
split_sentences ==
  /\ pc = "start"
  /\ sentences' = re_split(text)
  /\ sentence_batches' = <<>>
  /\ temp_batch' = <<>>
  /\ si' = 1
  /\ pc' = "for_sentence"
  /\ UNCHANGED <<det, memo, history, fn, text, separator, bi, raw_text,
                 results, corrected_text, calls, result>>

\* lines 440-447: one iteration of the loop over sentences
for_sentence ==
  /\ pc = "for_sentence"
  /\ si <= Len(sentences)
  /\ LET sentence == sentences[si]
         tb == Append(temp_batch, sentence)
     IN IF CloseCondition(tb, sentence, sentences)
        THEN /\ sentence_batches' = Append(sentence_batches, tb)
             /\ temp_batch' = <<>>
        ELSE /\ temp_batch' = tb
             /\ UNCHANGED sentence_batches
  /\ si' = si + 1
  /\ UNCHANGED <<det, memo, history, fn, text, separator, pc, sentences, bi,
                 raw_text, results, corrected_text, calls, result>>

\* corrected_text kept from one call to the next, as a list created once
\* outside the function would be
return_batches_KeepOutputs ==
  /\ pc = "for_sentence"
  /\ si > Len(sentences)
  /\ pc' = IF fn = "split_text" THEN "done" ELSE "for_batch"
  /\ bi' = 1
  /\ UNCHANGED <<det, memo, history, fn, text, separator, sentences,
                 sentence_batches, temp_batch, si, raw_text, results,
                 corrected_text, calls, result>>

\* line 449: return sentence_batches; in correct_text (lines 466-469) the
\* value is bound and corrected_text starts empty
return_batches ==
  /\ pc = "for_sentence"
  /\ si > Len(sentences)
  /\ pc' = IF fn = "split_text" THEN "done" ELSE "for_batch"
  /\ bi' = 1
  /\ corrected_text' = <<>>
  /\ UNCHANGED <<det, memo, history, fn, text, separator, sentences,
                 sentence_batches, temp_batch, si, raw_text, results, calls,
                 result>>

----------------------------------------------------------------------------
(* correct_text *)

\* rewrites whatever the classifier said
ShouldCorrect_Always(r) == TRUE

\* rewrites on a low score only, whatever the label
ShouldCorrect_LowScoreOnly(r) == r.score < Threshold

\* the comparison written as <= 0.9
ShouldCorrect_Inclusive(r) ==
  r.label # "LABEL_1" \/ (r.label = "LABEL_1" /\ r.score <= Threshold)

\* lines 482-484: results[0]["label"] != "LABEL_1" or
\* (results[0]["label"] == "LABEL_1" and results[0]["score"] < 0.9)
ShouldCorrect(r) ==
  r.label # "LABEL_1" \/ (r.label = "LABEL_1" /\ r.score < Threshold)

\* one entry of the log of collaborator calls
Call(f, b, arg, ok, r, gen) ==
  [fn |-> f, batch |-> b, arg |-> arg, ok |-> ok,
   label |-> r.label, score |-> r.score, text |-> gen]

\* what a collaborator answered in the call logged as c
Answer(c) ==
  [fn |-> c.fn, arg |-> c.arg, ok |-> c.ok,
   label |-> c.label, score |-> c.score, text |-> c.text]

\* the collaborators: with det they answer the call logged last in cs as
\* they answered the same argument before, otherwise freely
Answered(cs) ==
  LET c == Answer(cs[Len(cs)])
  IN /\ det => \A m \in memo : (m.fn = c.fn /\ m.arg = c.arg) => m = c
     /\ memo' = IF det THEN memo \cup {c} ELSE memo

\* the classifier's answer is taken and the loop moves on to the next batch
\* before this batch's output is decided
check_MoveOn ==
  /\ pc = "for_batch"
  /\ bi <= Len(sentence_batches)
  /\ LET raw == Join(sentence_batches[bi], <<" ">>)
     IN /\ raw_text' = raw
        /\ \E l \in Labels, s \in Scores :
             /\ results' = [label |-> l, score |-> s]
             /\ calls' = Append(calls,
                           Call("checker", bi, raw, TRUE, results', <<>>))
  /\ bi' = bi + 1
  /\ Answered(calls')
  /\ UNCHANGED <<det, history, fn, text, separator, pc, sentences,
                 sentence_batches, temp_batch, si, corrected_text, result>>

\* lines 472-479: next batch, raw_text = " ".join(batch), checker(raw_text);
\* the call returns a label and a score, or raises
check ==
  /\ pc = "for_batch"
  /\ bi <= Len(sentence_batches)
  /\ LET raw == Join(sentence_batches[bi], <<" ">>)
     IN /\ raw_text' = raw
        /\ \/ \E l \in Labels, s \in Scores :
                /\ results' = [label |-> l, score |-> s]
                /\ calls' = Append(calls,
                              Call("checker", bi, raw, TRUE, results', <<>>))
                /\ pc' = "decide"
           \/ /\ calls' = Append(calls,
                            Call("checker", bi, raw, FALSE, NoResults, <<>>))
              /\ pc' = "raised"
              /\ UNCHANGED results
  /\ Answered(calls')
  /\ UNCHANGED <<det, history, fn, text, separator, sentences,
                 sentence_batches, temp_batch, si, bi, corrected_text, result>>

\* a corrector failure that is caught and replaced by the raw text
correct_Fallback ==
  /\ pc = "decide"
  /\ ShouldCorrect(results)
  /\ \/ \E g \in Generated :
          /\ calls' = Append(calls,
                        Call("corrector", bi, raw_text, TRUE, NoResults, g))
          /\ corrected_text' = Append(corrected_text, g)
     \/ /\ calls' = Append(calls,
                      Call("corrector", bi, raw_text, FALSE, NoResults, <<>>))
        /\ corrected_text' = Append(corrected_text, raw_text)
  /\ bi' = bi + 1
  /\ pc' = "for_batch"
  /\ Answered(calls')
  /\ UNCHANGED <<det, history, fn, text, separator, sentences,
                 sentence_batches, temp_batch, si, raw_text, results, result>>

\* a corrector that is asked a second time for the same batch
correct_Twice ==
  /\ pc = "decide"
  /\ ShouldCorrect(results)
  /\ \E g \in Generated :
       /\ calls' = calls
                     \o << Call("corrector", bi, raw_text, TRUE, NoResults, g),
                           Call("corrector", bi, raw_text, TRUE, NoResults, g) >>
       /\ corrected_text' = Append(corrected_text, g)
  /\ bi' = bi + 1
  /\ pc' = "for_batch"
  /\ Answered(calls')
  /\ UNCHANGED <<det, history, fn, text, separator, sentences,
                 sentence_batches, temp_batch, si, raw_text, results, result>>

\* lines 482-487: corrector(raw_text); its generated text is the batch's
\* output, or the call raises
correct ==
  /\ pc = "decide"
  /\ ShouldCorrect(results)
  /\ \/ \E g \in Generated :
          /\ calls' = Append(calls,
                        Call("corrector", bi, raw_text, TRUE, NoResults, g))
          /\ corrected_text' = Append(corrected_text, g)
          /\ bi' = bi + 1
          /\ pc' = "for_batch"
     \/ /\ calls' = Append(calls,
                      Call("corrector", bi, raw_text, FALSE, NoResults, <<>>))
        /\ pc' = "raised"
        /\ UNCHANGED <<corrected_text, bi>>
  /\ Answered(calls')
  /\ UNCHANGED <<det, history, fn, text, separator, sentences,
                 sentence_batches, temp_batch, si, raw_text, results, result>>

\* lines 488-489: the raw text is the batch's output
keep ==
  /\ pc = "decide"
  /\ ~ShouldCorrect(results)
  /\ corrected_text' = Append(corrected_text, raw_text)
  /\ bi' = bi + 1
  /\ pc' = "for_batch"
  /\ UNCHANGED <<det, memo, history, fn, text, separator, sentences,
                 sentence_batches, temp_batch, si, raw_text, results, calls,
                 result>>

\* the outputs joined by a space whatever the separator argument
join_return_SpaceOnly ==
  /\ pc = "for_batch"
  /\ bi > Len(sentence_batches)
  /\ result' = << Join(corrected_text, <<" ">>) >>
  /\ pc' = "done"
  /\ UNCHANGED <<det, memo, history, fn, text, separator, sentences,
                 sentence_batches, temp_batch, si, bi, raw_text, results,
                 corrected_text, calls>>

\* lines 492-494: separator.join(corrected_text) is returned
join_return ==
  /\ pc = "for_batch"
  /\ bi > Len(sentence_batches)
  /\ result' = << Join(corrected_text, separator) >>
  /\ pc' = "done"
  /\ UNCHANGED <<det, memo, history, fn, text, separator, sentences,
                 sentence_batches, temp_batch, si, bi, raw_text, results,
                 corrected_text, calls>>

Next ==
  \/ split_sentences
  \/ for_sentence
  \/ return_batches
  \/ check
  \/ correct
  \/ keep
  \/ join_return

Spec == Init /\ [][Next]_vars

\* a call of correct_text that is followed to its end
InitLive ==
  /\ Init
  /\ fn = "correct_text"
  /\ text \in LiveTexts

\* the interpreter runs the function to its end: every statement that can
\* execute does, and every collaborator call returns or raises
LiveSpec == InitLive /\ [][Next]_vars /\ WF_vars(Next)

\* what is kept of a call that has ended
Ended == [text |-> text, separator |-> separator, calls |-> calls,
          pc |-> pc, result |-> result]

\* the first of several calls of correct_text, with collaborators that
\* answer identically for identical inputs
InitCalls ==
  /\ fn = "correct_text"
  /\ text \in CallTexts
  /\ separator \in Separators
  /\ pc = "start"
  /\ sentences = <<>>
  /\ sentence_batches = <<>>
  /\ temp_batch = <<>>
  /\ si = 1
  /\ bi = 1
  /\ raw_text = <<>>
  /\ results = NoResults
  /\ corrected_text = <<>>
  /\ calls = <<>>
  /\ result = <<>>
  /\ det = TRUE
  /\ memo = {}
  /\ history = <<>>

\* line 568: correct_text is called again, with any text and separator; the
\* call that ended is kept in history; the names of the function are bound
\* anew only by the assignments of the new call, so they are left as the
\* last call left them
next_call ==
  /\ fn = "correct_text"
  /\ pc \in {"done", "raised"}
  /\ Len(history) + 1 < MaxCalls
  /\ history' = Append(history, Ended)
  /\ text' \in CallTexts
  /\ separator' \in Separators
  /\ pc' = "start"
  /\ calls' = <<>>
  /\ result' = <<>>
  /\ UNCHANGED <<det, memo, fn, sentences, sentence_batches, temp_batch, si,
                 bi, raw_text, results, corrected_text>>

NextCalls == Next \/ next_call

SpecCalls == InitCalls /\ [][NextCalls]_vars

----------------------------------------------------------------------------
(* Properties *)

\* split_text has returned its list of batches
SplitReturned == pc \notin {"start", "for_sentence"}

\* indices of the calls of collaborator f for batch b
CallsOf(f, b) == { k \in DOMAIN calls : calls[k].fn = f /\ calls[k].batch = b }

\* the classifier call at index k returned label LABEL_1 with a score in S
Unacceptable(k, S) ==
  /\ calls[k].fn = "checker"
  /\ calls[k].ok
  /\ calls[k].label = "LABEL_1"
  /\ calls[k].score \in S

\* batch b's output is its sentences joined by one space, no corrector call
KeptRaw(b) ==
  /\ CallsOf("corrector", b) = {}
  /\ Len(corrected_text) >= b =>
       corrected_text[b] = Join(sentence_batches[b], <<" ">>)

\* after the classifier call at index k, the corrector is the next call, on
\* the batch's raw text, and what it returns is the batch's output; while
\* the decision is pending, only the corrector call can follow
Rewritten(k) ==
  LET b == calls[k].batch
  IN IF k = Len(calls)
     THEN pc = "decide" /\ bi = b /\ ENABLED correct /\ ~ENABLED keep
     ELSE /\ calls[k + 1].fn = "corrector"
          /\ calls[k + 1].batch = b
          /\ calls[k + 1].arg = Join(sentence_batches[b], <<" ">>)
          /\ CallsOf("corrector", b) = {k + 1}
          /\ calls[k + 1].ok =>
               Len(corrected_text) >= b /\ corrected_text[b] = calls[k + 1].text

\* C1: the batches, concatenated in order, are exactly the sentences of the
\* split: while the loop runs, the emitted batches followed by the open batch
\* are the sentences consumed so far; on return nothing is left open, lost,
\* duplicated or reordered.
C1_CoverageAndOrder ==
  /\ pc = "for_sentence" =>
       Flatten(sentence_batches) \o temp_batch = SubSeq(sentences, 1, si - 1)
  /\ SplitReturned =>
       Flatten(sentence_batches) = sentences /\ temp_batch = <<>>

\* the last sentence closes a batch of size 2: both close conditions at once
C1_Witness ==
  /\ pc = "done"
  /\ fn = "split_text"
  /\ Len(sentences) = 4
  /\ Sizes(sentence_batches) = <<2, 2>>

\* C2: every returned batch except possibly the last holds 2 or 3 sentences.
C2_AllButLastTwoOrThree ==
  SplitReturned =>
    \A k \in 1..(Len(sentence_batches) - 1) : Len(sentence_batches[k]) \in {2, 3}

RECURSIVE RefFrom(_, _, _)
\* reference segmenter: closes on the size condition or at the final index
RefFrom(sents, i, tb) ==
  IF i > Len(sents) THEN <<>>
  ELSE LET nb == Append(tb, sents[i])
       IN IF (Len(nb) >= 2 /\ Len(nb) <= 3) \/ i = Len(sents)
          THEN <<nb>> \o RefFrom(sents, i + 1, <<>>)
          ELSE RefFrom(sents, i + 1, nb)

\* C3: the batching equals that of the reference segmenter, which detects
\* the last sentence by position; two textually equal sentences form one
\* batch.
C3_LastByPosition ==
  SplitReturned => sentence_batches = RefFrom(sentences, 1, <<>>)

C9_FiveSentencesTwoBatches ==
  (SplitReturned /\ Len(sentences) = 5) =>
    /\ Sizes(sentence_batches) \in { <<2, 3>>, <<3, 2>> }
    /\ Flatten(sentence_batches) = sentences

\* C9 amended: five sentences give at least three batches, each of 1 or 2
\* sentences, covering the five sentences exactly once in order; the sizes
\* are [2,2,1] when no earlier sentence has the text of the last one.
C9_FiveSentencesThreeOrMore ==
  (SplitReturned /\ Len(sentences) = 5) =>
    /\ Len(sentence_batches) >= 3
    /\ \A k \in DOMAIN sentence_batches : Len(sentence_batches[k]) \in {1, 2}
    /\ Flatten(sentence_batches) = sentences
    /\ (\A k \in 1..4 : sentences[k] # sentences[5]) =>
         Sizes(sentence_batches) = <<2, 2, 1>>

\* five sentences, the last one unlike the others, batched as [2,2,1]
C9_Witness ==
  /\ pc = "done"
  /\ Len(sentences) = 5
  /\ \A k \in 1..4 : sentences[k] # sentences[5]
  /\ Sizes(sentence_batches) = <<2, 2, 1>>

\* C10: a failed classifier or corrector call is the last call ever made
\* (no retry, no call for a later batch), the call of correct_text ends in
\* the error outcome with nothing returned, and nothing follows the error.
C10_FailureAborts ==
  /\ \A k \in DOMAIN calls :
       ~calls[k].ok => (k = Len(calls) /\ pc = "raised" /\ result = <<>>)
  /\ pc = "raised" =>
       /\ calls # <<>>
       /\ ~calls[Len(calls)].ok
       /\ result = <<>>
       /\ ~ENABLED Next

\* the corrector failed on the second of three batches, after the first
\* batch's output was decided
C10_Witness ==
  /\ pc = "raised"
  /\ Len(sentence_batches) = 3
  /\ bi = 2
  /\ Len(corrected_text) = 1
  /\ calls[Len(calls)].fn = "corrector"

\* the calls with index below k
Before(k) == { j \in DOMAIN calls : j < k }

\* C11: batches are processed one at a time in order: the classifier call
\* for a batch comes after every call of the earlier batches, all of which
\* returned, and after the outputs of all earlier batches were decided; a
\* corrector call directly follows the returned classifier call of its own
\* batch.
C11_OneBatchAtATime ==
  /\ \A k \in DOMAIN calls :
       /\ calls[k].fn = "checker" =>
            /\ calls[k].batch =
                 1 + Cardinality({ j \in Before(k) : calls[j].fn = "checker" })
            /\ \A j \in Before(k) : calls[j].ok /\ calls[j].batch < calls[k].batch
       /\ calls[k].fn = "corrector" =>
            /\ k > 1
            /\ calls[k - 1].fn = "checker"
            /\ calls[k - 1].ok
            /\ calls[k - 1].batch = calls[k].batch
  /\ pc = "for_batch" =>
       /\ Len(corrected_text) = bi - 1
       /\ \A k \in DOMAIN calls : calls[k].batch < bi
  /\ pc = "decide" =>
       /\ Len(corrected_text) = bi - 1
       /\ calls # <<>>
       /\ calls[Len(calls)].fn = "checker"
       /\ calls[Len(calls)].batch = bi
       /\ \A k \in DOMAIN calls : calls[k].batch <= bi

\* three batches: the first rewritten, the second kept, the third rewritten
C11_Witness ==
  /\ pc = "done"
  /\ Len(sentence_batches) = 3
  /\ [k \in DOMAIN calls |-> <<calls[k].fn, calls[k].batch>>] =
       << <<"checker", 1>>, <<"corrector", 1>>, <<"checker", 2>>,
          <<"checker", 3>>, <<"corrector", 3>> >>

RECURSIVE Offset(_, _, _)
\* where output k starts in the joined string: the lengths of the outputs
\* before it, each followed by one separator
Offset(outs, sep, k) ==
  IF k = 1 THEN 0
  ELSE Offset(outs, sep, k - 1) + Len(outs[k - 1]) + Len(sep)

\* C12: on successful completion the returned string is the per-batch
\* outputs, one per batch and in batch order, with the separator argument
\* (a single space by default) between consecutive outputs and nowhere else.
C12_OrderedJoin ==
  (fn = "correct_text" /\ pc = "done") =>
    LET n == Len(corrected_text)
        r == result[1]
    IN /\ Len(result) = 1
       /\ n = Len(sentence_batches)
       /\ Len(r) = IF n = 0 THEN 0
                   ELSE Offset(corrected_text, separator, n) + Len(corrected_text[n])
       /\ \A k \in 1..n :
            LET o == Offset(corrected_text, separator, k)
                l == Len(corrected_text[k])
            IN /\ SubSeq(r, o + 1, o + l) = corrected_text[k]
               /\ k < n => SubSeq(r, o + l + 1, o + l + Len(separator)) = separator

\* two outputs, one kept and one generated, joined by a separator that is
\* not the default
C12_Witness ==
  /\ pc = "done"
  /\ separator = <<"|">>
  /\ result = << <<"A","a","a",".","|","Z","z">> >>

\* C13: a text without any sentence-boundary match yields exactly one batch,
\* whose only sentence is the whole text: once split_text has returned,
\* either that is its result or the text has a match.
C13_NoBoundaryOneBatch ==
  SplitReturned =>
    \/ sentence_batches = << <<text>> >>
    \/ \E i \in 1..Len(text) : MatchAt(text, i)

\* a text with a period, a space and an uppercase letter, yet no match
C13_Witness ==
  /\ fn = "split_text"
  /\ pc = "done"
  /\ text = <<"A","a","."," ","A">>
  /\ sentence_batches = << <<text>> >>

\* the indices at which a run of spaces starts in t
RunStarts(t) ==
  { i \in 1..Len(t) : t[i] = " " /\ (i = 1 \/ t[i - 1] # " ") }

\* the last index of the run of spaces that starts at i
LastOfRun(t, i) ==
  CHOOSE j \in i..Len(t) :
    /\ \A m \in i..j : t[m] = " "
    /\ j = Len(t) \/ t[j + 1] # " "

\* the rule as stated: the run follows a period or question mark that
\* directly follows a non-uppercase character, and precedes an uppercase
\* letter
StatedBoundary(t, i) ==
  /\ i >= 3
  /\ t[i - 1] \in {".", "?"}
  /\ t[i - 2] \notin Upper
  /\ LastOfRun(t, i) < Len(t)
  /\ t[LastOfRun(t, i) + 1] \in Upper

\* the rule of the code: the run follows a period or question mark, the
\* character two places before that mark exists and is not uppercase, the
\* character between them is anything but a newline, and the run precedes
\* an uppercase letter
ThreeBackBoundary(t, i) ==
  /\ i >= 4
  /\ t[i - 1] \in {".", "?"}
  /\ t[i - 2] # "\n"
  /\ t[i - 3] \notin Upper
  /\ LastOfRun(t, i) < Len(t)
  /\ t[LastOfRun(t, i) + 1] \in Upper

RECURSIVE PiecesAt(_, _, _)
\* t from index start on, cut at the runs that start at an index in B,
\* the runs themselves removed
PiecesAt(t, B, start) ==
  LET later == { i \in B : i >= start }
  IN IF later = {} THEN << SubSeq(t, start, Len(t)) >>
     ELSE LET i == CHOOSE m \in later : \A o \in later : m <= o
          IN << SubSeq(t, start, i - 1) >>
             \o PiecesAt(t, B \ {i}, LastOfRun(t, i) + 1)

\* C14 as stated: the sentences the loop of split_text runs over are the
\* text cut at the runs of spaces that satisfy the two-character rule.
C14_StatedRule ==
  pc = "for_sentence" =>
    sentences =
      PiecesAt(text, { i \in RunStarts(text) : StatedBoundary(text, i) }, 1)

\* C14 amended: the sentences the loop of split_text runs over are the
\* text cut at the runs of spaces that follow a period or question mark
\* whose second character before it is not uppercase (the one directly
\* before it is arbitrary), and that precede an uppercase letter.
C14_ThreeBackRule ==
  pc = "for_sentence" =>
    sentences =
      PiecesAt(text, { i \in RunStarts(text) : ThreeBackBoundary(text, i) }, 1)

\* a text cut at its space although an uppercase letter directly
\* precedes the period
C14_Witness ==
  /\ fn = "split_text"
  /\ pc = "done"
  /\ text = <<"a","A","."," ","A">>
  /\ sentences = << <<"a","A",".">>, <<"A">> >>

\* C17: every batch is non-empty and holds at most 2 sentences, and the open
\* batch never holds more than one: a batch of size 3 is never produced.
C17_NeverThree ==
  /\ \A k \in DOMAIN sentence_batches : Len(sentence_batches[k]) \in {1, 2}
  /\ Len(temp_batch) <= 1

\* three sentences, batched as two and one
C17_Witness ==
  /\ fn = "split_text"
  /\ pc = "done"
  /\ Len(sentences) = 3
  /\ Sizes(sentence_batches) = <<2, 1>>

\* the calls made to collaborator f
AllCallsOf(f) == { k \in DOMAIN calls : calls[k].fn = f }

\* no batch is given twice to the same collaborator, every call is for a
\* batch of the list, and the corrector is never called more often than the
\* classifier; on return the classifier was called exactly once per batch
CallCounts ==
  /\ \A k \in DOMAIN calls : calls[k].batch \in 1..Len(sentence_batches)
  /\ \A b \in 1..Len(sentence_batches) :
       /\ Cardinality(CallsOf("checker", b)) <= 1
       /\ Cardinality(CallsOf("corrector", b)) <= 1
       /\ CallsOf("corrector", b) # {} => CallsOf("checker", b) # {}
  /\ Cardinality(AllCallsOf("corrector")) <= Cardinality(AllCallsOf("checker"))
  /\ (fn = "correct_text" /\ pc = "done") =>
       /\ \A b \in 1..Len(sentence_batches) :
            Cardinality(CallsOf("checker", b)) = 1
       /\ Cardinality(AllCallsOf("checker")) = Len(sentence_batches)

\* C16: every call ends, by a return or by the error of a collaborator, and
\* at every moment the classifier has been called at most once per batch and
\* the corrector at most once per batch and never more often than the
\* classifier; on return the classifier was called exactly once per batch.
C16_TerminatesOncePerBatch ==
  /\ []CallCounts
  /\ <>(pc \in {"done", "raised"})

\* a call over two batches that returned after two classifier calls and
\* one corrector call
C16_Witness ==
  /\ fn = "correct_text"
  /\ pc = "done"
  /\ Len(sentence_batches) = 2
  /\ Cardinality(AllCallsOf("checker")) = 2
  /\ Cardinality(AllCallsOf("corrector")) = 1

\* cs is an initial part of ds
IsPrefix(cs, ds) == Len(cs) <= Len(ds) /\ cs = SubSeq(ds, 1, Len(cs))

\* C15: with collaborators that answer identically for identical inputs, a
\* call with the text and separator of an earlier call makes the same
\* collaborator calls in the same order and ends the same way with the same
\* returned string, whatever calls were made in between.
C15_SameCallSameOutcome ==
  det =>
    \A i \in DOMAIN history :
      (history[i].text = text /\ history[i].separator = separator) =>
        /\ IsPrefix(calls, history[i].calls)
        /\ pc \in {"done", "raised"} =>
             /\ calls = history[i].calls
             /\ pc = history[i].pc
             /\ result = history[i].result

\* the third call repeats the first, a call with another text in between;
\* both returned the corrector's output
C15_Witness ==
  /\ det
  /\ pc = "done"
  /\ Len(history) = 2
  /\ history[1].text = text
  /\ history[1].separator = separator
  /\ history[2].text # text
  /\ Len(calls) = 2
  /\ result = history[1].result
  /\ result[1] \in Generated
====
